---------------------------- MODULE Spec2Model ----------------------------
(***************************************************************************)
(* VolatilityFormatter (Temporal_Fusion_Transform/data_formatters/         *)
(* volatility.py): one formatter object, its five calibration fields, the  *)
(* lazy sequence split_data returns, and the calls a client makes on it.   *)
(*                                                                         *)
(* Numbers are exact.  A statistic is a rational <<n, d>> in lowest terms  *)
(* (d > 0); a scaled cell is the real rat + sgn * sqrt(sq), the shape of   *)
(* (v - mean) / sqrt(var) and of p * sqrt(var) + mean, kept canonical so   *)
(* that equal reals are equal records; the numeric cells of input tables   *)
(* are integers.  A cell of a categorical column is a tagged Python value, *)
(* an int or a str; strings are sequences of code points so that str()     *)
(* and the sort of the label encoder are computed.                         *)
(***************************************************************************)
EXTENDS Integers, Sequences, FiniteSets

(* ------------------------------ bounds -------------------------------- *)

\* Longest generated input table, in rows.
MaxRows == 2


(* --------------------------- exact arithmetic ------------------------- *)

Abs(n) == IF n < 0 THEN -n ELSE n

Sign(n) == IF n < 0 THEN -1 ELSE IF n = 0 THEN 0 ELSE 1

RECURSIVE GCD(_, _)
GCD(a, b) == IF b = 0 THEN a ELSE GCD(b, a % b)

\* The rational n / d (d # 0) in lowest terms with a positive denominator.
Rat(n, d) ==
    LET g == GCD(Abs(n), Abs(d))
        s == IF d < 0 THEN -1 ELSE 1
    IN  <<(s * n) \div g, Abs(d) \div g>>

RInt(n) == <<n, 1>>

RAdd(a, b) == Rat(a[1] * b[2] + b[1] * a[2], a[2] * b[2])

RSub(a, b) == Rat(a[1] * b[2] - b[1] * a[2], a[2] * b[2])

RMul(a, b) == Rat(a[1] * b[1], a[2] * b[2])

RDiv(a, b) == Rat(a[1] * b[2], a[2] * b[1])

\* Largest k with k * k <= n.
ISqrt(n) == CHOOSE k \in 0..n : k * k <= n /\ (k + 1) * (k + 1) > n

IsSquare(n) == ISqrt(n) * ISqrt(n) = n

\* rat + sgn * sqrt(sq) in canonical form: a rational square root is folded
\* into the rational part.
Real(rat, sgn, sq) ==
    IF sgn = 0 \/ sq[1] = 0
      THEN [rat |-> rat, sgn |-> 0, sq |-> RInt(0)]
    ELSE IF IsSquare(sq[1]) /\ IsSquare(sq[2])
      THEN [rat |-> RAdd(rat, Rat(sgn * ISqrt(sq[1]), ISqrt(sq[2]))),
            sgn |-> 0, sq |-> RInt(0)]
    ELSE [rat |-> rat, sgn |-> sgn, sq |-> sq]

\* The integer n as a real number.
RealOfInt(n) == Real(RInt(n), 0, RInt(0))

RECURSIVE SumSeq(_)
SumSeq(s) == IF s = <<>> THEN 0 ELSE Head(s) + SumSeq(Tail(s))

(* ------------------------------ strings ------------------------------- *)

\* Decimal digits of n >= 0 as code points ("0" is 48).
RECURSIVE Digits(_)
Digits(n) == IF n < 10 THEN <<48 + n>> ELSE Digits(n \div 10) \o <<48 + (n % 10)>>

\* Python str() of a cell: an int prints in decimal ("-" is 45), a str is
\* itself.
Str(cell) ==
    IF cell.t = "int"
      THEN IF cell.v < 0 THEN <<45>> \o Digits(-cell.v) ELSE Digits(cell.v)
      ELSE cell.v

\* Python's order on str: lexicographic by code point.
RECURSIVE StrLess(_, _)
StrLess(a, b) ==
    IF b = <<>> THEN FALSE
    ELSE IF a = <<>> THEN TRUE
    ELSE IF Head(a) # Head(b) THEN Head(a) < Head(b)
    ELSE StrLess(Tail(a), Tail(b))

\* sorted(set(values)).
RECURSIVE SortedSet(_)
SortedSet(S) ==
    IF S = {} THEN <<>>
    ELSE LET m == CHOOSE x \in S : \A y \in S \ {x} : StrLess(x, y)
         IN  <<m>> \o SortedSet(S \ {m})


(* ------------------------------- schema ------------------------------- *)

\* (name, data type, input type) of every column, in declaration order.
_column_definition ==
    << <<"PRICE_ASK_0", "REAL_VALUED", "KNOWN_INPUT">>,
       <<"PRICE_BID_0", "REAL_VALUED", "KNOWN_INPUT">>,
       <<"VOLUME_ASK_0", "REAL_VALUED", "KNOWN_INPUT">>,
       <<"VOLUME_BID_0", "REAL_VALUED", "KNOWN_INPUT">>,
       <<"SPREAD", "REAL_VALUED", "KNOWN_INPUT">>,
       <<"midprice", "REAL_VALUED", "KNOWN_INPUT">>,
       <<"id", "REAL_VALUED", "ID">>,
       <<"time", "REAL_VALUED", "TIME">>,
       <<"rolling_volatility", "REAL_VALUED", "TARGET">>,
       <<"STOCK", "CATEGORICAL", "STATIC_INPUT">> >>

\* The schema as the base class hands it to the methods.
get_column_definition == _column_definition

\* The only column of the given input type.
get_single_col_by_input_type(input_type, column_definition) ==
    LET Is(tup) == tup[3] = input_type
    IN  SelectSeq(column_definition, Is)[1][1]

\* Names of the columns of a data type whose input type is not excluded, in
\* schema order.
extract_cols_from_data_type(data_type, column_definition, excluded) ==
    LET Keep(tup) == tup[2] = data_type /\ tup[3] \notin excluded
        kept == SelectSeq(column_definition, Keep)
    IN  [j \in 1..Len(kept) |-> kept[j][1]]

\* The column split_data partitions on.
BucketColumn == "DAY"

\* The columns format_predictions leaves alone.
ReservedColumns == {"forecast_time", "identifier"}

\* Default boundaries of split_data.
DefaultValidBoundary == 7

DefaultTestBoundary == 8

(* ------------------------------- tables ------------------------------- *)

\* A data frame: its column names and its rows, each row an index label and
\* one cell per column.
Frame(columns, rows) == [columns |-> columns, rows |-> rows]

Range(s) == {s[i] : i \in DOMAIN s}

\* df[col].values
ColumnValues(df, col) == [i \in 1..Len(df.rows) |-> df.rows[i].cells[col]]

\* df.copy() with the cells of the given columns replaced; NewCell is a
\* function of (row position, column).
Assign(df, cols, newCell) ==
    Frame(df.columns \cup cols,
          [i \in 1..Len(df.rows) |->
              [index |-> df.rows[i].index,
               cells |-> [c \in df.columns \cup cols |->
                            IF c \in cols THEN newCell[i, c]
                            ELSE df.rows[i].cells[c]]]])

(* --------------------------- python outcomes -------------------------- *)

None == [kind |-> "None"]

\* A call that returned.
Returned(value) == [exc |-> "none", msg |-> "", value |-> value]

\* A call that raised.
Raised(exc, msg) == [exc |-> exc, msg |-> msg, value |-> None]

ScalersNotSet == Raised("ValueError", "Scalers have not been set!")

KeyError(col) == Raised("KeyError", col)

EmptyArray == Raised("ValueError", "Found array with 0 sample(s)")

UnseenLabels == Raised("ValueError", "y contains previously unseen labels")

NoneAttribute(attr) == Raised("AttributeError", attr)

NoneSubscript == Raised("TypeError", "'NoneType' object is not subscriptable")

\* check_array on a Series where a 2-D array is required.
Expected2D == Raised("ValueError", "Expected 2D array, got 1D array instead")

(* ------------------------- sklearn.preprocessing ---------------------- *)

\* Mean of a column of integers.
Mean(vals) == Rat(SumSeq(vals), Len(vals))

\* Population variance of a column of integers: E[x^2] - E[x]^2.
Variance(vals) ==
    LET n == Len(vals)
        s == SumSeq(vals)
        q == SumSeq([i \in 1..n |-> vals[i] * vals[i]])
    IN  Rat(n * q - s * s, n * n)

\* StandardScaler().fit(df[cols].values) on at least one row: per-column mean
\* and variance; the scale is sqrt(var), or 1 where the variance is 0.
StandardScalerFit(df, cols) ==
    [kind  |-> "StandardScaler",
     mean_ |-> [j \in 1..Len(cols) |-> Mean(ColumnValues(df, cols[j]))],
     var_  |-> [j \in 1..Len(cols) |-> Variance(ColumnValues(df, cols[j]))]]

\* (v - mean) / scale of an integer v.
ScalerTransform(v, mean, var) ==
    LET num == RSub(RInt(v), mean)
    IN  IF var[1] = 0 THEN Real(num, 0, RInt(0))
        ELSE Real(RInt(0), Sign(num[1]), RDiv(RMul(num, num), var))

\* v * scale + mean of an integer v.
ScalerInverse(v, mean, var) ==
    IF var[1] = 0 THEN Real(RAdd(RInt(v), mean), 0, RInt(0))
    ELSE Real(mean, Sign(v), RMul(RInt(v * v), var))

\* pandas unique(): distinct values in order of first appearance.
RECURSIVE Unique(_)
Unique(s) ==
    IF s = <<>> THEN <<>>
    ELSE LET init == [i \in 1..(Len(s) - 1) |-> s[i]]
             last == s[Len(s)]
         IN  IF last \in Range(init) THEN Unique(init)
             ELSE Unique(init) \o <<last>>

\* A faulty LabelEncoderFit: classes in order of first appearance, not sorted.
LabelEncoderFitUnsorted(values) ==
    [kind |-> "LabelEncoder", classes_ |-> Unique(values)]

\* LabelEncoder().fit(values): the sorted distinct values.
LabelEncoderFit(values) ==
    [kind |-> "LabelEncoder", classes_ |-> SortedSet(Range(values))]

\* Position of a label among the classes, from 0.
LabelCode(enc, label) ==
    (CHOOSE k \in 1..Len(enc.classes_) : enc.classes_[k] = label) - 1

\* An int cell.
IntCell(n) == [t |-> "int", v |-> n]

\* A faulty LabelEncoderTransform: a label not among the classes gets the
\* next free code instead of a raise.
LabelEncoderTransformLenient(enc, labels) ==
    Returned([i \in 1..Len(labels) |->
                IF labels[i] \in Range(enc.classes_)
                  THEN IntCell(LabelCode(enc, labels[i]))
                  ELSE IntCell(Len(enc.classes_))])

\* enc.transform(labels): the codes of the labels, or a raise if one of them
\* is not among the classes.
LabelEncoderTransform(enc, labels) ==
    IF \E i \in 1..Len(labels) : labels[i] \notin Range(enc.classes_)
      THEN UnseenLabels
    ELSE Returned([i \in 1..Len(labels) |->
                     IntCell(LabelCode(enc, labels[i]))])

(* ------------------------- VolatilityFormatter ------------------------ *)

List(items) == [kind |-> "list", items |-> items]

Dict(items) == [kind |-> "dict", items |-> items]

\* The fields __init__ sets.
NewFormatter ==
    [identifiers |-> None,
     _real_scalers |-> None,
     _cat_scalers |-> None,
     _target_scaler |-> None,
     _num_classes_per_cat_input |-> None]

\* Columns the standard scaler is fitted on and applied to.
real_inputs ==
    extract_cols_from_data_type("REAL_VALUED", get_column_definition,
                                {"ID", "TIME"})

\* Columns the label encoders are fitted on and applied to.
categorical_inputs ==
    extract_cols_from_data_type("CATEGORICAL", get_column_definition,
                                {"ID", "TIME"})

\* First column of a list that a frame lacks (the list has one).
FirstMissing(cols, df) ==
    cols[CHOOSE j \in 1..Len(cols) :
            /\ cols[j] \notin df.columns
            /\ \A i \in 1..(j - 1) : cols[i] \in df.columns]

\* df[col].apply(str)
StrColumn(df, col) ==
    [i \in 1..Len(df.rows) |-> Str(df.rows[i].cells[col])]

\* set_scalers(df): the formatter after the call and how the call ended.  Each
\* field is assigned where the code assigns it, so a call that raises keeps
\* the assignments made before the raise.
set_scalers(self, df) ==
    LET id_column == get_single_col_by_input_type("ID", get_column_definition)
        target_column ==
            get_single_col_by_input_type("TARGET", get_column_definition)
        s1 == [self EXCEPT
                 !.identifiers = List(Unique(ColumnValues(df, id_column)))]
        s2 == [s1 EXCEPT
                 !._real_scalers = StandardScalerFit(df, real_inputs),
                 !._target_scaler = StandardScalerFit(df, <<target_column>>)]
        s3 == [s2 EXCEPT
                 !._cat_scalers =
                     Dict([col \in Range(categorical_inputs) |->
                             LabelEncoderFit(StrColumn(df, col))]),
                 !._num_classes_per_cat_input =
                     List([j \in 1..Len(categorical_inputs) |->
                             Cardinality(Range(
                                 StrColumn(df, categorical_inputs[j])))])]
    IN  IF id_column \notin df.columns
          THEN [self |-> self, out |-> KeyError(id_column)]
        ELSE IF \E j \in 1..Len(real_inputs) : real_inputs[j] \notin df.columns
          THEN [self |-> s1, out |-> KeyError(FirstMissing(real_inputs, df))]
        ELSE IF df.rows = <<>>
          THEN [self |-> s1, out |-> EmptyArray]
        ELSE IF \E j \in 1..Len(categorical_inputs) :
                    categorical_inputs[j] \notin df.columns
          THEN [self |-> s2,
                out |-> KeyError(FirstMissing(categorical_inputs, df))]
        ELSE [self |-> s3, out |-> Returned(None)]

\* The guard of transform_inputs.
ScalersUnset(self) ==
    self._real_scalers = None /\ self._cat_scalers = None

\* One round of the categorical loop of transform_inputs: the codes of the
\* column, or the raise.
CategoricalCodes(self, df, col) ==
    IF col \notin df.columns THEN KeyError(col)
    ELSE IF self._cat_scalers = None THEN NoneSubscript
    ELSE LabelEncoderTransform(self._cat_scalers.items[col],
                               StrColumn(df, col))

\* A faulty Transformed: one (mean, std) pair, the first column's, scales
\* every continuous column.
TransformedSingleScalar(self, df) ==
    LET cols == Range(real_inputs) \cup Range(categorical_inputs)
    IN  Assign(df, cols,
               [i \in 1..Len(df.rows), c \in cols |->
                  IF c \in Range(real_inputs)
                    THEN ScalerTransform(df.rows[i].cells[c],
                                         self._real_scalers.mean_[1],
                                         self._real_scalers.var_[1])
                    ELSE CategoricalCodes(self, df, c).value[i]])

\* The table transform_inputs builds once nothing has raised.
Transformed(self, df) ==
    LET pos(c) == CHOOSE j \in 1..Len(real_inputs) : real_inputs[j] = c
        cols == Range(real_inputs) \cup Range(categorical_inputs)
    IN  Assign(df, cols,
               [i \in 1..Len(df.rows), c \in cols |->
                  IF c \in Range(real_inputs)
                    THEN ScalerTransform(df.rows[i].cells[c],
                                         self._real_scalers.mean_[pos(c)],
                                         self._real_scalers.var_[pos(c)])
                    ELSE CategoricalCodes(self, df, c).value[i]])

\* transform_inputs(df): how the call ends.  The formatter is not assigned to.
transform_inputs(self, df) ==
    LET bad == {j \in 1..Len(categorical_inputs) :
                  CategoricalCodes(self, df, categorical_inputs[j]).exc
                      # "none"}
        first == CHOOSE j \in bad : \A i \in bad : j <= i
    IN  IF ScalersUnset(self) THEN ScalersNotSet
        ELSE IF self._real_scalers = None THEN NoneAttribute("transform")
        ELSE IF \E j \in 1..Len(real_inputs) : real_inputs[j] \notin df.columns
          THEN KeyError(FirstMissing(real_inputs, df))
        ELSE IF df.rows = <<>> THEN EmptyArray
        ELSE IF bad # {}
          THEN CategoricalCodes(self, df, categorical_inputs[first])
        ELSE Returned(Transformed(self, df))

\* Columns format_predictions rescales.
PredictionColumns(predictions) == predictions.columns \ ReservedColumns

\* format_predictions(predictions): how the call ends.  The column handed to
\* inverse_transform is a Series (1-D).  Whether StandardScaler accepts it
\* depends on the scikit-learn release installed, which the repository does
\* not pin: releases that validate the input as 2-D raise (ensure_2d), the
\* others rescale it element by element.
format_predictions(self, predictions, ensure_2d) ==
    LET cols == PredictionColumns(predictions)
    IN  IF cols # {} /\ self._target_scaler = None
          THEN NoneAttribute("inverse_transform")
        ELSE IF cols # {} /\ ensure_2d THEN Expected2D
        ELSE Returned(
               Assign(predictions, cols,
                      [i \in 1..Len(predictions.rows), c \in cols |->
                         ScalerInverse(predictions.rows[i].cells[c],
                                       self._target_scaler.mean_[1],
                                       self._target_scaler.var_[1])]))

\* df.loc[(index >= lo) & (index < hi)] on the bucket column; lo or hi may be
\* absent.
RowsBelow(df, hi) ==
    LET In(r) == r.cells[BucketColumn] < hi
    IN  Frame(df.columns, SelectSeq(df.rows, In))

\* A faulty RowsBetween: the upper boundary is included.
RowsBetweenInclusive(df, lo, hi) ==
    LET In(r) == r.cells[BucketColumn] >= lo /\ r.cells[BucketColumn] <= hi
    IN  Frame(df.columns, SelectSeq(df.rows, In))

RowsBetween(df, lo, hi) ==
    LET In(r) == r.cells[BucketColumn] >= lo /\ r.cells[BucketColumn] < hi
    IN  Frame(df.columns, SelectSeq(df.rows, In))

RowsFrom(df, lo) ==
    LET In(r) == r.cells[BucketColumn] >= lo
    IN  Frame(df.columns, SelectSeq(df.rows, In))

\* A faulty CalibrationPart: calibration sees the whole table.
CalibrationPartWhole(df, valid_boundary) == df

\* The table split_data calibrates on.
CalibrationPart(df, valid_boundary) == RowsBelow(df, valid_boundary)

\* The list the generator expression of split_data iterates over.
SplitParts(df, valid_boundary, test_boundary) ==
    << RowsBelow(df, valid_boundary),
       RowsBetween(df, valid_boundary, test_boundary),
       RowsFrom(df, test_boundary) >>

\* A generator over the given tables, none consumed yet.
Generator(parts) == [kind |-> "generator", parts |-> parts]

\* split_data(df, valid_boundary, test_boundary): the formatter after the
\* call, how the call ended and the generator it returned, if any.
split_data(self, df, valid_boundary, test_boundary) ==
    LET r == set_scalers(self, CalibrationPart(df, valid_boundary))
    IN  IF BucketColumn \notin df.columns
          THEN [self |-> self, out |-> KeyError(BucketColumn)]
        ELSE IF r.out # Returned(None)
          THEN [self |-> r.self, out |-> r.out]
        ELSE [self |-> r.self,
              out |-> Returned(Generator(
                         SplitParts(df, valid_boundary, test_boundary)))]


(* ------------------------------- inputs ------------------------------- *)

\* Time buckets of the generated rows: the last one below the default valid
\* boundary and the boundary itself.  The boundary pairs put the second into
\* the valid partition, into the test partition, or into train and test.
Days == (DefaultValidBoundary - 1) .. DefaultValidBoundary

\* Row contents (identifier, features, target, stock label) per bucket.
Kinds == {1, 2}

\* Boundary pairs split_data is called with: the defaults, the defaults
\* swapped, and twice the same boundary.
BoundaryPairs ==
    { <<DefaultValidBoundary, DefaultTestBoundary>>,
      <<DefaultTestBoundary, DefaultValidBoundary>>,
      <<DefaultValidBoundary, DefaultValidBoundary>> }

\* The stock label of a generated row: the int 10, the str "9" or the int 9.
StockCell(d, k) ==
    IF k % 2 = 1 THEN IntCell(10)
    ELSE IF d % 2 = 0 THEN [t |-> "str", v |-> <<57>>]
    ELSE IntCell(9)

\* The cells of the generated row of bucket d and content k.
RowCells(d, k) ==
    LET x == (k * k + d) % 5
    IN  [c \in {"PRICE_ASK_0", "PRICE_BID_0", "VOLUME_ASK_0", "VOLUME_BID_0",
                "SPREAD", "midprice", "id", "time", "rolling_volatility",
                "STOCK", "DAY"} |->
          CASE c = "PRICE_ASK_0" -> x + 1
            [] c = "PRICE_BID_0" -> x
            [] c = "VOLUME_ASK_0" -> 2 * x
            [] c = "VOLUME_BID_0" -> 3
            [] c = "SPREAD" -> 1
            [] c = "midprice" -> x
            [] c = "id" -> k
            [] c = "time" -> 10 * d + k
            [] c = "rolling_volatility" -> (2 * k + d) % 4
            [] c = "STOCK" -> StockCell(d, k)
            [] c = "DAY" -> d]

AllColumns == DOMAIN RowCells(0, 0)

\* The rows the generated tables are built from, as (bucket, content) pairs.
RowKeys == Days \X Kinds

\* The frame whose rows are the given (bucket, content) pairs, indexed from 0.
FrameOf(keys) ==
    Frame(AllColumns,
          [i \in 1..Len(keys) |->
              [index |-> i - 1, cells |-> RowCells(keys[i][1], keys[i][2])]])

\* df.drop(columns = [col])
DropColumn(df, col) ==
    Frame(df.columns \ {col},
          [i \in 1..Len(df.rows) |->
              [index |-> df.rows[i].index,
               cells |-> [c \in df.columns \ {col} |-> df.rows[i].cells[c]]]])

\* Columns a malformed table may lack: the bucket, the identifier, the
\* target, a continuous input, the categorical input.
DroppableColumns == {"DAY", "id", "rolling_volatility", "midprice", "STOCK"}

KeySeqs(keys, n) == UNION {[1..m -> keys] : m \in 0..n}

\* The example of the split: buckets 5, 6, 7, 8, 9.
ExampleFrame ==
    FrameOf([i \in 1..5 |->
               <<DefaultValidBoundary - 3 + i, 1 + (i % 2)>>])

\* Rows of the first bucket.
FirstKeys == {<<DefaultValidBoundary - 1, k>> : k \in Kinds}

\* What the tables of one run are made of: a row of the first bucket and a
\* row of a later one with the other content, in any arrangement of at most MaxRows; one row of the
\* first bucket, repeated up to MaxRows times, and also as a one-row table
\* with a column missing; or the example table.
Pools ==
    {[mode |-> "rows", keys |-> {p[1], p[2]}] :
        p \in {q \in FirstKeys \X (RowKeys \ FirstKeys) : q[1][2] # q[2][2]}}
    \cup {[mode |-> "malformed", keys |-> {a}] : a \in FirstKeys}
    \cup {[mode |-> "example", keys |-> {}]}

\* The tables of each pool.
TablesOf ==
    [p \in Pools |->
       CASE p.mode = "rows" ->
              {FrameOf(ks) : ks \in KeySeqs(p.keys, MaxRows)}
         [] p.mode = "malformed" ->
              {FrameOf(ks) : ks \in KeySeqs(p.keys, MaxRows)}
              \cup {DropColumn(FrameOf(<<key>>), c) :
                       key \in p.keys, c \in DroppableColumns}
         [] p.mode = "example" -> {ExampleFrame}]

\* Prediction tables: the two reserved columns, with or without a column of
\* predictions.
PredictionFrames ==
    LET row(cols, v) ==
            [index |-> 0,
             cells |-> [c \in cols |->
                          IF c = "forecast_time" THEN 3
                          ELSE IF c = "identifier" THEN 1 ELSE v]]
    IN  {Frame(cols, <<row(cols, v)>>) :
            cols \in {ReservedColumns, ReservedColumns \cup {"p50"}},
            v \in {-1, 0, 2}}

(* ------------------------------- state -------------------------------- *)

VARIABLES
    self,   \* the formatter's fields
    gen,    \* the generator the client holds, with the split_data call it
            \* came from, or None
    ret,    \* the last call: its name, arguments and outcome
    hist,   \* history: whether a calibration has completed
    pool    \* what this run's tables are made of

vars == <<self, gen, ret, hist, pool>>

\* The record of a call.  For next(), df is the table handed to
\* transform_inputs, nth its place in the sequence and split the split_data
\* call that made the generator.
Call(op, df, valid_boundary, test_boundary, nth, split, out) ==
    [op |-> op, df |-> df, valid_boundary |-> valid_boundary,
     test_boundary |-> test_boundary, nth |-> nth, split |-> split,
     out |-> out]

\* No call has been made, or the client is done with the last call's outcome.
NoCall == Call("none", None, 0, 0, 0, None, Returned(None))

Init ==
    /\ self = NewFormatter
    /\ gen = None
    /\ ret = NoCall
    /\ hist = [calibrated |-> FALSE]
    /\ pool \in Pools

\* A client calls set_scalers(df).
SetScalers ==
    \E df \in TablesOf[pool] :
        LET r == set_scalers(self, df)
        IN  /\ ret = NoCall
            /\ self' = r.self
            /\ ret' = Call("set_scalers", df, 0, 0, 0, None, r.out)
            /\ hist' = [hist EXCEPT
                          !.calibrated = @ \/ r.out = Returned(None)]
            /\ UNCHANGED <<gen, pool>>

\* A client calls split_data(df, valid_boundary, test_boundary) at any time.
\* Generators act on one another only through the formatter's fields, so the
\* model follows one of them at a time: the client either holds on to the
\* generator it has and lets go of the new one, or holds the new one from
\* now on.
SplitData ==
    /\ ret = NoCall
    /\ \E df \in TablesOf[pool], b \in BoundaryPairs :
        LET r == split_data(self, df, b[1], b[2])
            ok == r.out.exc = "none"
            made == [gen |-> r.out.value,
                     split |-> [df |-> df, valid_boundary |-> b[1],
                                test_boundary |-> b[2], self |-> r.self]]
        IN  /\ self' = r.self
            /\ ret' = Call("split_data", df, b[1], b[2], 0, None, r.out)
            /\ gen' \in IF ok THEN {made, gen} ELSE {gen}
            /\ hist' = [hist EXCEPT !.calibrated = @ \/ ok]
            /\ UNCHANGED pool

\* A client takes the next table of the generator it holds: transform_inputs
\* runs now, on the formatter as it is now.  A raise closes the generator; the
\* client lets go of a generator that is closed or has yielded its last table.
NextTable ==
    /\ ret = NoCall
    /\ gen # None
    /\ LET parts == gen.gen.parts
           data == Head(parts)
           out == transform_inputs(self, data)
       IN  /\ ret' = Call("next", data, 0, 0, 4 - Len(parts), gen.split, out)
           /\ gen' = IF out.exc = "none" /\ Len(parts) > 1
                        THEN [gen EXCEPT !.gen = Generator(Tail(parts))]
                      ELSE None
    /\ UNCHANGED <<self, hist, pool>>

\* A client calls transform_inputs(df).
TransformInputs ==
    /\ ret = NoCall
    /\ \E df \in TablesOf[pool] :
          ret' = Call("transform_inputs", df, 0, 0, 0, None,
                      transform_inputs(self, df))
    /\ UNCHANGED <<self, gen, hist, pool>>

\* A client calls format_predictions(predictions).
FormatPredictions ==
    /\ ret = NoCall
    /\ \E predictions \in PredictionFrames, ensure_2d \in BOOLEAN :
          ret' = Call("format_predictions", predictions, 0, 0, 0, None,
                      format_predictions(self, predictions, ensure_2d))
    /\ UNCHANGED <<self, gen, hist, pool>>

\* The client is done with the outcome of its last call and may call again.
Resume ==
    /\ ret # NoCall
    /\ ret' = NoCall
    /\ UNCHANGED <<self, gen, hist, pool>>

Next ==
    \/ Resume
    \/ SetScalers
    \/ SplitData
    \/ NextTable
    \/ TransformInputs
    \/ FormatPredictions

Spec == Init /\ [][Next]_vars

(* ----------------------------- properties ----------------------------- *)

Fields == DOMAIN NewFormatter

TargetColumn == get_single_col_by_input_type("TARGET", get_column_definition)

IdColumn == get_single_col_by_input_type("ID", get_column_definition)

TimeColumn == get_single_col_by_input_type("TIME", get_column_definition)

\* Place of the target among the columns the standard scaler is fitted on.
TargetPlace ==
    CHOOSE j \in 1..Len(real_inputs) : real_inputs[j] = TargetColumn

\* Whether bucket d is in the k-th range of the boundaries: (-inf, vb),
\* [vb, tb), [tb, +inf).
InRange(k, d, vb, tb) ==
    CASE k = 1 -> d < vb
      [] k = 2 -> vb <= d /\ d < tb
      [] k = 3 -> tb <= d

\* The rows of df whose bucket is in the k-th range.
RangeRows(df, k, vb, tb) ==
    LET In(r) == InRange(k, r.cells[BucketColumn], vb, tb)
    IN  SelectSeq(df.rows, In)

\* The table of the rows of df below the valid boundary.
TrainingFrame(df, vb) == Frame(df.columns, RangeRows(df, 1, vb, vb))

\* The cells of those rows, without their index labels.
TrainingCells(df, vb) ==
    [i \in 1..Len(RangeRows(df, 1, vb, vb)) |->
        RangeRows(df, 1, vb, vb)[i].cells]

\* C1: transform_inputs on a formatter on which no set_scalers call has
\* returned fails with the 'scalers not set' error, whatever calls raised
\* before.
C1_TransformRequiresCalibration ==
    (ret.op = "transform_inputs" /\ ~hist.calibrated)
        => ret.out = ScalersNotSet

\* C2: format_predictions on a formatter that was never calibrated fails with
\* the state error for every predictions table, and returns no table.
C2_FormatRequiresCalibration ==
    (ret.op = "format_predictions" /\ ~hist.calibrated)
        => ret.out = ScalersNotSet

\* C3: the fields split_data leaves behind depend on the rows below the valid
\* boundary only: for every table with the same such rows (whatever its other
\* rows and its index labels), they are what set_scalers makes of those rows
\* alone.
C3_NoLeakage ==
    [][(ret'.op = "split_data" /\ BucketColumn \in ret'.df.columns) =>
         LET vb == ret'.valid_boundary
             same == {other \in TablesOf[pool] :
                        /\ other.columns = ret'.df.columns
                        /\ TrainingCells(other, vb)
                              = TrainingCells(ret'.df, vb)}
         IN  \A train \in {TrainingFrame(other, vb) : other \in same} :
                self' = set_scalers(self, train).self
      ]_vars

\* A split_data call that returned, on a table with rows at or above the valid
\* boundary.
C3_Witness ==
    /\ ret.op = "split_data"
    /\ ret.out.exc = "none"
    /\ \E i \in 1..Len(ret.df.rows) :
          ret.df.rows[i].cells[BucketColumn] >= ret.valid_boundary
    /\ self._real_scalers.var_[1] # RInt(0)

\* C4 as stated: for every pair of boundaries, each row of the table is in
\* exactly one of the three tables of the sequence, the k-th holding the rows
\* of the k-th range.
C4_PartitionAnyBoundaries ==
    (ret.op = "split_data" /\ ret.out.exc = "none") =>
        LET parts == ret.out.value.parts
        IN  /\ \A k \in 1..3 :
                  parts[k].rows = RangeRows(ret.df, k, ret.valid_boundary,
                                            ret.test_boundary)
            /\ \A i \in 1..Len(ret.df.rows) :
                  Cardinality({k \in 1..3 :
                      ret.df.rows[i] \in Range(parts[k].rows)}) = 1

\* C4 amended: the k-th table of the sequence is made of the rows of the k-th
\* range, in table order; with valid_boundary <= test_boundary each row is in
\* exactly one of the three; and every table the sequence yields has the index
\* labels and buckets of its range, train first, then valid, then test.
C4_PartitionOrderedBoundaries ==
    /\ (ret.op = "split_data" /\ ret.out.exc = "none") =>
          LET parts == ret.out.value.parts
          IN  /\ \A k \in 1..3 :
                    parts[k].rows = RangeRows(ret.df, k, ret.valid_boundary,
                                              ret.test_boundary)
              /\ ret.valid_boundary <= ret.test_boundary =>
                    \A i \in 1..Len(ret.df.rows) :
                       Cardinality({k \in 1..3 :
                           ret.df.rows[i] \in Range(parts[k].rows)}) = 1
    /\ (ret.op = "next" /\ ret.out.exc = "none") =>
          LET want == RangeRows(ret.split.df, ret.nth,
                                ret.split.valid_boundary,
                                ret.split.test_boundary)
              got == ret.out.value.rows
          IN  /\ Len(got) = Len(want)
              /\ \A i \in 1..Len(want) :
                    /\ got[i].index = want[i].index
                    /\ got[i].cells[BucketColumn] = want[i].cells[BucketColumn]

\* The third table of the example split (boundaries 7 and 8, buckets 5 to 9)
\* has been yielded.
C4_Witness ==
    /\ ret.op = "next"
    /\ ret.nth = 3
    /\ ret.out.exc = "none"
    /\ ret.split.df = ExampleFrame
    /\ ret.split.valid_boundary = DefaultValidBoundary
    /\ ret.split.test_boundary = DefaultTestBoundary
    /\ Len(ret.out.value.rows) = 2

\* C5 as stated: the target column of the table transform_inputs returns holds
\* the values of the input table.
C5_TargetUnchanged ==
    (ret.op = "transform_inputs" /\ hist.calibrated /\ ret.out.exc = "none")
    => \A i \in 1..Len(ret.df.rows) :
          ret.out.value.rows[i].cells[TargetColumn]
              = RealOfInt(ret.df.rows[i].cells[TargetColumn])

\* C5 amended: the target is one of the continuous columns: transform_inputs
\* replaces it by (value - mean) / std under the statistics the continuous
\* scaler holds for it; the identifier and timestamp columns are unchanged.
C5_TargetStandardised ==
    (ret.op \in {"transform_inputs", "next"} /\ ret.out.exc = "none")
    => \A i \in 1..Len(ret.df.rows) :
          LET old == ret.df.rows[i].cells
              new == ret.out.value.rows[i].cells
          IN  /\ new[TargetColumn]
                   = ScalerTransform(old[TargetColumn],
                                     self._real_scalers.mean_[TargetPlace],
                                     self._real_scalers.var_[TargetPlace])
              /\ \A c \in {IdColumn, TimeColumn} \cap ret.df.columns :
                    new[c] = old[c]

\* transform_inputs has returned a table whose target differs from the input's.
C5_Witness ==
    /\ ret.op = "transform_inputs"
    /\ ret.out.exc = "none"
    /\ \E i \in 1..Len(ret.df.rows) :
          ret.out.value.rows[i].cells[TargetColumn]
              # RealOfInt(ret.df.rows[i].cells[TargetColumn])
    /\ self._real_scalers.var_[TargetPlace] # RInt(0)

\* Whether a categorical column of df holds a label absent from the classes
\* of the column's encoder.
HoldsUnseenLabel(fmt, df) ==
    \E j \in 1..Len(categorical_inputs) :
        LET col == categorical_inputs[j]
        IN  /\ col \in df.columns
            /\ \E i \in 1..Len(df.rows) :
                  Str(df.rows[i].cells[col])
                      \notin Range(fmt._cat_scalers.items[col].classes_)

\* C6: on a calibrated formatter, transform_inputs on a table holding an
\* unseen label raises and returns no table, the fields stay as they were, and
\* (the table having the continuous columns, which are read first) the raise
\* is the unseen-label error.
C6_UnseenLabelsFatal ==
    [][(ret'.op = "transform_inputs" /\ hist.calibrated
          /\ HoldsUnseenLabel(self, ret'.df)) =>
         /\ ret'.out.exc # "none"
         /\ ret'.out.value = None
         /\ self' = self
         /\ Range(real_inputs) \subseteq ret'.df.columns
               => ret'.out = UnseenLabels
      ]_vars

\* transform_inputs has raised the unseen-label error on a calibrated
\* formatter.
C6_Witness ==
    /\ ret.op = "transform_inputs"
    /\ hist.calibrated
    /\ ret.out = UnseenLabels

\* C7: after a calibration that returned, the classes of each categorical
\* column are the distinct stringified values of the calibration table in
\* increasing order, the code of a label is its rank, the class count is
\* their number, and a fresh formatter calibrated on the same table holds the
\* same encoders and counts.
C7_LabelCodes ==
    (ret.op \in {"set_scalers", "split_data"} /\ ret.out.exc = "none") =>
        LET table == IF ret.op = "set_scalers" THEN ret.df
                     ELSE TrainingFrame(ret.df, ret.valid_boundary)
            fresh == set_scalers(NewFormatter, table).self
        IN  /\ \A j \in 1..Len(categorical_inputs) :
                  LET col == categorical_inputs[j]
                      enc == self._cat_scalers.items[col]
                      labels == {Str(table.rows[i].cells[col]) :
                                    i \in 1..Len(table.rows)}
                  IN  /\ Range(enc.classes_) = labels
                      /\ \A a, b \in 1..Len(enc.classes_) :
                            a < b => StrLess(enc.classes_[a], enc.classes_[b])
                      /\ \A l \in labels :
                            LabelCode(enc, l)
                               = Cardinality({m \in labels : StrLess(m, l)})
                      /\ self._num_classes_per_cat_input.items[j]
                            = Cardinality(labels)
            /\ self._cat_scalers = fresh._cat_scalers
            /\ self._num_classes_per_cat_input
                  = fresh._num_classes_per_cat_input

\* set_scalers has returned on a table with the labels "10" and "9".
C7_Witness ==
    /\ ret.op = "set_scalers"
    /\ ret.out.exc = "none"
    /\ self._num_classes_per_cat_input.items[1] = 2
    /\ self._cat_scalers.items["STOCK"].classes_ = <<Digits(10), Digits(9)>>

\* C8: on a calibrated formatter format_predictions returns a table with the
\* rows and columns of the predictions, the reserved columns unchanged and
\* every other cell value * std + mean under the target scaler; the fields
\* are not assigned to.
C8_FormatPredictions ==
    [][(ret'.op = "format_predictions" /\ hist.calibrated) =>
         LET old == ret'.df
             new == ret'.out.value
         IN  /\ ret'.out.exc = "none"
             /\ new.columns = old.columns
             /\ Len(new.rows) = Len(old.rows)
             /\ \A i \in 1..Len(old.rows) :
                   /\ new.rows[i].index = old.rows[i].index
                   /\ \A c \in old.columns :
                         new.rows[i].cells[c]
                            = IF c \in ReservedColumns
                                THEN old.rows[i].cells[c]
                                ELSE ScalerInverse(
                                        old.rows[i].cells[c],
                                        self._target_scaler.mean_[1],
                                        self._target_scaler.var_[1])
             /\ self' = self
      ]_vars

\* C9: each table the sequence yields is the transform of its part under the
\* fields as the split_data call calibrated them, whatever was called on the
\* formatter in between.
C9_OneShotCalibration ==
    ret.op = "next" => ret.out = transform_inputs(ret.split.self, ret.df)

\* C10: the five calibration fields are all unset or all set.
C10_AllOrNothing ==
    \/ \A f \in Fields : self[f] = None
    \/ \A f \in Fields : self[f] # None

=============================================================================
